---- MODULE Spec2Model ----
(***************************************************************************)
(* A model of openapi_to_k6.py: the OpenAPIToK6 generator object (spec,    *)
(* auth_key, endpoints), its generate() operation, and the pure helper     *)
(* methods it is built from.                                               *)
(*                                                                         *)
(* Text is modelled as a sequence of one-character strings, so substring   *)
(* tests, lower(), the regular expression of extract_path_parameters,      *)
(* str.replace and str.split are computed character by character.          *)
(* A Python dict whose iteration order the code relies on (paths, a path   *)
(* item, content, properties) is a sequence of <<key, value>> pairs; a     *)
(* dict that is only read with .get(key, default) is a record, and a       *)
(* missing key is a field that is not in its DOMAIN.  An Optional value is *)
(* a sequence of length at most one (<<>> is None).                        *)
(***************************************************************************)
EXTENDS Integers, Sequences, FiniteSets, TLC

VARIABLES
    spec,       \* OpenAPIToK6.spec: the loaded OpenAPI mapping
    auth_key,   \* OpenAPIToK6.auth_key
    endpoints,  \* OpenAPIToK6.endpoints
    script,     \* what the last generate() returned (<<>> before any call)
    first,      \* what the first generate() for this spec and key returned
    error,      \* the exception the last generate() ended in, or NoError
    calls,      \* number of generate() calls made so far
    call,       \* for the helper methods: the method called and its arguments
    result      \* for the helper methods: <<>> before the call, <<value>> after

vars == <<spec, auth_key, endpoints, script, first, error, calls, call, result>>

(***************************************************************************)
(* Bounds of the model.                                                    *)
(***************************************************************************)
MaxCalls == 3      \* generate() calls explored per spec
MaxPaths == 2      \* paths in a spec mapping
MaxSegs == 3       \* pieces a path template is assembled from
MaxProps == 2      \* properties in a schema
MaxEntries == 2    \* content entries in one response

(***************************************************************************)
(* Text.                                                                   *)
(***************************************************************************)
UpperLetters == <<"A", "B", "C", "D", "E", "F", "G", "H", "I", "J", "K", "L", "M",
                  "N", "O", "P", "Q", "R", "S", "T", "U", "V", "W", "X", "Y", "Z">>
LowerLetters == <<"a", "b", "c", "d", "e", "f", "g", "h", "i", "j", "k", "l", "m",
                  "n", "o", "p", "q", "r", "s", "t", "u", "v", "w", "x", "y", "z">>
Digits == {"0", "1", "2", "3", "4", "5", "6", "7", "8", "9"}

Range(s) == {s[i] : i \in DOMAIN s}

LowerMap == [c \in Range(UpperLetters) |->
                LowerLetters[CHOOSE i \in DOMAIN UpperLetters : UpperLetters[i] = c]]
UpperMap == [c \in Range(LowerLetters) |->
                UpperLetters[CHOOSE i \in DOMAIN LowerLetters : LowerLetters[i] = c]]

\* str.lower() and str.upper(), one character
LowerChar(c) == IF c \in DOMAIN LowerMap THEN LowerMap[c] ELSE c
UpperChar(c) == IF c \in DOMAIN UpperMap THEN UpperMap[c] ELSE c

Lower(s) == [i \in DOMAIN s |-> LowerChar(s[i])]
Upper(s) == [i \in DOMAIN s |-> UpperChar(s[i])]

\* the characters the regular expression class \w matches
WordChars == Range(UpperLetters) \cup Range(LowerLetters) \cup Digits \cup {"_"}
IsWordChar(c) == c \in WordChars

\* s[i:] starts with sub (i is 1-based)
StartsAt(s, i, sub) ==
    /\ i + Len(sub) - 1 <= Len(s)
    /\ SubSeq(s, i, i + Len(sub) - 1) = sub

\* Python's `sub in s` on strings
Contains(sub, s) == \E i \in 1..(Len(s) + 1) : StartsAt(s, i, sub)

\* the least element of a non-empty set of integers
Min(S) == CHOOSE k \in S : \A m \in S : k <= m

\* str.find(sub, i): the first occurrence of sub at or after i, 0 if there is none
Find(s, i, sub) ==
    LET at == {k \in i..Len(s) : StartsAt(s, k, sub)}
    IN IF at = {} THEN 0 ELSE Min(at)

\* str.replace(old, new): every non-overlapping occurrence, left to right
RECURSIVE ReplaceFrom(_, _, _, _)
ReplaceFrom(s, i, old, new) ==
    LET k == Find(s, i, old)
    IN IF k = 0 THEN SubSeq(s, i, Len(s))
       ELSE SubSeq(s, i, k - 1) \o new \o ReplaceFrom(s, k + Len(old), old, new)

StrReplace(s, old, new) == ReplaceFrom(s, 1, old, new)

\* str.split('.'): the pieces between the dots
RECURSIVE SplitFrom(_, _)
SplitFrom(s, i) ==
    LET k == Find(s, i, <<".">>)
    IN IF k = 0 THEN <<SubSeq(s, i, Len(s))>>
       ELSE <<SubSeq(s, i, k - 1)>> \o SplitFrom(s, k + 1)

SplitDot(s) == SplitFrom(s, 1)

\* Python dict.get(key, default) on a dict that is modelled as a record
Get(d, key, default) == IF key \in DOMAIN d THEN d[key] ELSE default

\* Python `key in d` and d[key] on a dict modelled as a sequence of pairs
HasKey(d, key) == \E i \in DOMAIN d : d[i][1] = key
Lookup(d, key, default) ==
    IF HasKey(d, key) THEN d[CHOOSE i \in DOMAIN d : d[i][1] = key][2] ELSE default

EmptyDict == [x \in {} |-> x]

(***************************************************************************)
(* Literals of the source.                                                 *)
(***************************************************************************)
sAdmin == <<"/", "a", "d", "m", "i", "n">>
sId == <<"i", "d">>
sFranchise == <<"f", "r", "a", "n", "c", "h", "i", "s", "e">>
sFranchiseId == <<"f", "r", "a", "n", "c", "h", "i", "s", "e", "I", "d">>
sJson == <<"j", "s", "o", "n">>
sJsonDot == <<"j", "s", "o", "n", ".">>
sTrackedValuesDot == <<"t", "r", "a", "c", "k", "e", "d", "V", "a", "l", "u", "e", "s", ".">>
sOr == <<" ", "|", "|", " ">>
sValue == <<"_", "v", "a", "l", "u", "e">>
sApplicationJson == <<"a", "p", "p", "l", "i", "c", "a", "t", "i", "o", "n", "/", "j", "s", "o", "n">>
sLocalhost == <<"h", "t", "t", "p", ":", "/", "/", "l", "o", "c", "a", "l", "h", "o", "s", "t">>
sGet == <<"g", "e", "t">>
sPost == <<"p", "o", "s", "t">>
sPut == <<"p", "u", "t">>
sPatch == <<"p", "a", "t", "c", "h">>
sDelete == <<"d", "e", "l", "e", "t", "e">>
sHead == <<"h", "e", "a", "d">>
sOptions == <<"o", "p", "t", "i", "o", "n", "s">>

\* the list of line 41
StandardMethods == {sGet, sPost, sPut, sPatch, sDelete, sHead, sOptions}

(***************************************************************************)
(* extract_path_parameters: re.findall(r'\{(\w+)\}', path).                *)
(***************************************************************************)
\* the end of the longest run of word characters that starts at i (i - 1 if none)
WordRunEnd(s, i) ==
    Min({k \in i..(Len(s) + 1) : k > Len(s) \/ ~IsWordChar(s[k])}) - 1

\* the regular expression matches at i: `{`, one or more word characters, `}`
MatchesAt(s, i) ==
    LET j == WordRunEnd(s, i + 1)
    IN s[i] = "{" /\ j >= i + 1 /\ j + 1 <= Len(s) /\ s[j + 1] = "}"

\* findall: the leftmost match at or after i, then on from the end of that match
RECURSIVE FindAllFrom(_, _)
FindAllFrom(s, i) ==
    LET at == {k \in i..Len(s) : MatchesAt(s, k)}
    IN IF at = {} THEN <<>>
       ELSE LET k == Min(at)
                j == WordRunEnd(s, k + 1)
            IN <<SubSeq(s, k + 1, j)>> \o FindAllFrom(s, j + 2)

extract_path_parameters(path) == FindAllFrom(path, 1)

(***************************************************************************)
(* replace_path_parameters.                                                *)
(***************************************************************************)
\* line 141, wrapped in ${...} by line 142
Replacement(param) ==
    <<"$", "{">> \o sTrackedValuesDot \o param \o sOr
        \o sTrackedValuesDot \o Lower(param) \o sOr
        \o <<"'">> \o param \o <<"'">> \o <<"}">>

RECURSIVE ReplaceParams(_, _)
ReplaceParams(res, params) ==
    IF params = <<>> THEN res
    ELSE ReplaceParams(
             StrReplace(res, <<"{">> \o Head(params) \o <<"}">>, Replacement(Head(params))),
             Tail(params))

replace_path_parameters(path) == ReplaceParams(path, extract_path_parameters(path))

(***************************************************************************)
(* find_response_value_extractor.  An operation's `responses` is a record  *)
(* keyed by status code; a response's `content` and a schema's             *)
(* `properties` are sequences of <<key, value>> pairs in declaration order.*)
(***************************************************************************)
\* line 60
StatusCodes == <<"200", "201", "202", "default">>

\* lines 81-83: the first property, in declaration order, whose name contains `id`
RECURSIVE FirstIdLike(_, _)
FirstIdLike(properties, i) ==
    IF i > Len(properties) THEN <<>>
    ELSE IF Contains(sId, Lower(properties[i][1])) THEN <<sJsonDot \o properties[i][1]>>
    ELSE FirstIdLike(properties, i + 1)

\* lines 67-83 with the `id` test of line 75 ahead of the exact-name test of line 71
ExtractorInSchemaIdFirst(schema, param_name) ==
    LET properties == Get(schema, "properties", <<>>) IN
    IF HasKey(properties, sId) THEN <<sJsonDot \o sId>>
    ELSE IF HasKey(properties, param_name) THEN <<sJsonDot \o param_name>>
    ELSE IF Get(schema, "type", "None") = "object" THEN FirstIdLike(properties, 1)
    ELSE <<>>

\* lines 67-83: one JSON media type
ExtractorInSchema(schema, param_name) ==
    LET properties == Get(schema, "properties", <<>>) IN
    IF HasKey(properties, param_name) THEN <<sJsonDot \o param_name>>
    ELSE IF HasKey(properties, sId) THEN <<sJsonDot \o sId>>
    ELSE IF Get(schema, "type", "None") = "object" THEN FirstIdLike(properties, 1)
    ELSE <<>>

\* lines 65-83: the content entries of one response, in order
RECURSIVE ExtractorInContent(_, _, _)
ExtractorInContent(content, i, param_name) ==
    IF i > Len(content) THEN <<>>
    ELSE LET found == IF Contains(sJson, Lower(content[i][1]))
                      THEN ExtractorInSchema(Get(content[i][2], "schema", EmptyDict), param_name)
                      ELSE <<>>
         IN IF found # <<>> THEN found ELSE ExtractorInContent(content, i + 1, param_name)

\* lines 60-85: the status codes, in order
RECURSIVE ExtractorFromStatus(_, _, _)
ExtractorFromStatus(responses, k, param_name) ==
    IF k > Len(StatusCodes) THEN <<>>
    ELSE LET response == Get(responses, StatusCodes[k], EmptyDict)
             content == Get(response, "content", <<>>)
             found == ExtractorInContent(content, 1, param_name)
         IN IF found # <<>> THEN found ELSE ExtractorFromStatus(responses, k + 1, param_name)

find_response_value_extractor(operation, param_name) ==
    ExtractorFromStatus(Get(operation, "responses", EmptyDict), 1, param_name)

(***************************************************************************)
(* generate_value_tracker.  The returned text is the sequence of its       *)
(* try-blocks.  A block stores, under trackedValues['<key>'], the first    *)
(* of its `fields` that the response body has: a "param" block (lines      *)
(* 100-112) reads the one field `json.<field>`; the "franchise" block is   *)
(* the fixed text of lines 116-130, which reads body.id, else              *)
(* body.franchiseId, and stores under trackedValues['franchiseId'].        *)
(***************************************************************************)
\* line 104: extractor.split('.')[1] if '.' in extractor else extractor
TrackedField(extractor) ==
    IF Contains(<<".">>, extractor) THEN SplitDot(extractor)[2] ELSE extractor

\* lines 96-112
RECURSIVE ParamTrackers(_, _, _)
ParamTrackers(params, operation, res_var) ==
    IF params = <<>> THEN <<>>
    ELSE LET param == Head(params)
             extractor == find_response_value_extractor(operation, param)
             rest == ParamTrackers(Tail(params), operation, res_var)
         IN IF /\ (Contains(sId, Lower(param)) \/ Contains(sFranchise, Lower(param)))
               /\ extractor # <<>>
            THEN <<[kind |-> "param", res |-> res_var,
                    fields |-> <<TrackedField(extractor[1])>>, key |-> param]>> \o rest
            ELSE rest

\* lines 115-130
FranchiseTracker(res_var) ==
    [kind |-> "franchise", res |-> res_var, fields |-> <<sId, sFranchiseId>>,
     key |-> sFranchiseId]

generate_value_tracker(path, operation, res_var) ==
    LET path_params == extract_path_parameters(path)
        method == Upper(Get(operation, "method", <<>>))
    IN (IF method \in {Upper(sPost), Upper(sPut)}
        THEN ParamTrackers(path_params, operation, res_var)
        ELSE <<>>)
       \o
       (IF Contains(sFranchise, Lower(path)) /\ method = Upper(sPost)
        THEN <<FranchiseTracker(res_var)>>
        ELSE <<>>)

(***************************************************************************)
(* generate_request_body.  A declared default is a tagged Python value:    *)
(* [t |-> "str", v |-> text], [t |-> "bool", v |-> TRUE or FALSE],         *)
(* [t |-> "int", v |-> n] or [t |-> "none"] (an explicit null).  The       *)
(* returned text is <<>> for the empty string, else <<declaration>> with   *)
(* the variable's name and its `name: value` entries.                      *)
(***************************************************************************)
RECURSIVE NatStr(_)
NatStr(n) ==
    LET d == <<"0", "1", "2", "3", "4", "5", "6", "7", "8", "9">>[(n % 10) + 1]
    IN IF n < 10 THEN <<d>> ELSE NatStr(n \div 10) \o <<d>>

\* Python's str() of a value, as an f-string formats it
PyStr(v) ==
    CASE v.t = "str" -> v.v
      [] v.t = "bool" -> IF v.v THEN <<"T", "r", "u", "e">> ELSE <<"F", "a", "l", "s", "e">>
      [] v.t = "int" -> IF v.v < 0 THEN <<"-">> \o NatStr(0 - v.v) ELSE NatStr(v.v)
      [] v.t = "none" -> <<"N", "o", "n", "e">>

PyNone == [t |-> "none"]

\* lines 264-285: the entries one property contributes (none or one)
BodyPart(prop_name, prop_schema) ==
    LET prop_type == Get(prop_schema, "type", "string")
        default_value == Get(prop_schema, "default", PyNone)
    IN IF default_value.t # "none" THEN
           IF default_value.t = "str"
           THEN <<[name |-> prop_name, value |-> <<"'">> \o default_value.v \o <<"'">>]>>
           ELSE <<[name |-> prop_name, value |-> PyStr(default_value)]>>
       ELSE IF prop_type = "string" THEN
           IF Contains(sId, Lower(prop_name)) \/ Contains(sFranchise, Lower(prop_name))
           THEN <<[name |-> prop_name,
                   value |-> sTrackedValuesDot \o prop_name \o sOr
                             \o sTrackedValuesDot \o sFranchiseId \o sOr
                             \o <<"'">> \o prop_name \o sValue \o <<"'">>]>>
           ELSE <<[name |-> prop_name, value |-> <<"'">> \o prop_name \o sValue \o <<"'">>]>>
       ELSE IF prop_type = "integer" \/ prop_type = "number" THEN
           <<[name |-> prop_name,
              value |-> PyStr(Get(prop_schema, "default", [t |-> "int", v |-> 0]))]>>
       ELSE IF prop_type = "boolean" THEN
           <<[name |-> prop_name,
              value |-> PyStr(Get(prop_schema, "default", [t |-> "bool", v |-> FALSE]))]>>
       ELSE IF prop_type = "array" THEN <<[name |-> prop_name, value |-> <<"[", "]">>]>>
       ELSE IF prop_type = "object" THEN <<[name |-> prop_name, value |-> <<"{", "}">>]>>
       ELSE <<>>

RECURSIVE BodyParts(_, _)
BodyParts(properties, i) ==
    IF i > Len(properties) THEN <<>>
    ELSE BodyPart(properties[i][1], properties[i][2]) \o BodyParts(properties, i + 1)

generate_request_body(schema, var_name) ==
    LET body_parts == BodyParts(Get(schema, "properties", <<>>), 1)
    IN IF body_parts # <<>> THEN <<[var |-> var_name, parts |-> body_parts]>> ELSE <<>>

(***************************************************************************)
(* parse_spec.                                                             *)
(***************************************************************************)
NoError == "none"

\* self.spec.get('servers', [{}])[0] raises IndexError on an empty list (lines 32, 172)
ServersRaises(sp) == Get(sp, "servers", <<EmptyDict>>) = <<>>

\* self.spec.get('servers', [{}])[0].get('url', 'http://localhost')
BaseUrl(sp) == Get(Get(sp, "servers", <<EmptyDict>>)[1], "url", sLocalhost)

\* line 46 with the `/` removed instead of replaced by `_`
DerivedOperationIdStripped(method, path) ==
    method \o <<"_">> \o StrReplace(StrReplace(StrReplace(path, <<"/">>, <<>>),
                                               <<"{">>, <<>>), <<"}">>, <<>>)

\* line 46: the fallback operation id
DerivedOperationId(method, path) ==
    method \o <<"_">> \o StrReplace(StrReplace(StrReplace(path, <<"/">>, <<"_">>),
                                               <<"{">>, <<>>), <<"}">>, <<>>)

\* lines 42-48
Endpoint(path, method, operation, base_url) ==
    [path |-> path,
     method |-> Upper(method),
     operation |-> operation,
     operation_id |-> Get(operation, "operationId", DerivedOperationId(method, path)),
     base_url |-> base_url]

\* lines 40-49: the operations of one path item
RECURSIVE PathItemEndpoints(_, _, _, _)
PathItemEndpoints(path, path_item, j, base_url) ==
    IF j > Len(path_item) THEN <<>>
    ELSE (IF Lower(path_item[j][1]) \in StandardMethods
          THEN <<Endpoint(path, path_item[j][1], path_item[j][2], base_url)>>
          ELSE <<>>)
         \o PathItemEndpoints(path, path_item, j + 1, base_url)

\* a prefix test in place of the substring test of line 36
IsAdminPathPrefix(path) == StartsAt(path, 1, sAdmin)

\* line 36
IsAdminPath(path) == Contains(sAdmin, path)

\* lines 34-49: what the loop appends to self.endpoints
RECURSIVE PathsEndpoints(_, _, _)
PathsEndpoints(paths, i, base_url) ==
    IF i > Len(paths) THEN <<>>
    ELSE (IF IsAdminPath(paths[i][1]) THEN <<>>
          ELSE PathItemEndpoints(paths[i][1], paths[i][2], 1, base_url))
         \o PathsEndpoints(paths, i + 1, base_url)

\* self.endpoints after parse_spec, given self.endpoints before it
parse_spec(sp, eps) == eps \o PathsEndpoints(Get(sp, "paths", <<>>), 1, BaseUrl(sp))

(***************************************************************************)
(* generate_k6_script.  The script is its base-URL line and the sequence   *)
(* of endpoint blocks; the preamble and trailer are fixed text.  A block   *)
(* holds what each of its lines is built from; url<i>, headers<i>, res<i>  *)
(* and body<i> are named by the index i.                                   *)
(***************************************************************************)
BodyMethods == {Upper(sPost), Upper(sPut), Upper(sPatch)}

\* lines 207-210: the schema of the first content entry whose type contains `json`
RECURSIVE FirstJsonSchema(_, _)
FirstJsonSchema(content, i) ==
    IF i > Len(content) THEN EmptyDict
    ELSE IF Contains(sJson, Lower(content[i][1])) THEN Get(content[i][2], "schema", EmptyDict)
    ELSE FirstJsonSchema(content, i + 1)

\* lines 204-210
RequestBodySchema(operation) ==
    LET content == Get(Get(operation, "requestBody", EmptyDict), "content", <<>>)
        exact == Get(Lookup(content, sApplicationJson, EmptyDict), "schema", EmptyDict)
    IN IF DOMAIN exact = {} THEN FirstJsonSchema(content, 1) ELSE exact

BodyVar(i) == [base |-> "body", i |-> i]
ResVar(i) == [base |-> "res", i |-> i]

\* lines 190-197
HeadersCode(path) ==
    <<"Content-Type">> \o (IF ~IsAdminPath(path) THEN <<"Authorization">> ELSE <<>>)

\* lines 179-246: the block of endpoint number i (0-based)
Block(endpoint, i) ==
    LET path == endpoint.path
        method == endpoint.method
        operation == endpoint.operation
        schema == IF method \in BodyMethods THEN RequestBodySchema(operation) ELSE EmptyDict
        hasSchema == method \in BodyMethods /\ DOMAIN schema # {}
        request_body_code == IF hasSchema THEN generate_request_body(schema, BodyVar(i))
                             ELSE <<>>
        request_body_var == IF hasSchema THEN <<BodyVar(i)>> ELSE <<>>
    IN [index |-> i,
        operation_id |-> endpoint.operation_id,
        method |-> method,
        path |-> path,
        url |-> replace_path_parameters(path),
        headers |-> HeadersCode(path),
        body |-> request_body_code,
        request |-> [fn |-> Lower(method), body |-> request_body_var],
        tracker |-> generate_value_tracker(path, [method |-> method] @@ operation, ResVar(i))]

generate_k6_script(sp, eps) ==
    [base_url |-> BaseUrl(sp),
     blocks |-> [k \in DOMAIN eps |-> Block(eps[k], k - 1)]]

(***************************************************************************)
(* The spec mappings the generator is run on.                              *)
(***************************************************************************)
pAdminUsers == <<"/", "a", "d", "m", "i", "n", "/", "u", "s", "e", "r", "s">>
pAdminTools == <<"/", "v", "1", "/", "a", "d", "m", "i", "n", "-", "t", "o", "o", "l", "s">>
pFranchises == <<"/", "f", "r", "a", "n", "c", "h", "i", "s", "e", "s">>
pItems == <<"/", "f", "r", "a", "n", "c", "h", "i", "s", "e", "s", "/", "{", "f", "r", "a", "n", "c", "h", "i", "s", "e", "I", "d", "}", "/", "i", "t", "e", "m", "s", "/", "{", "i", "t", "e", "m", "I", "d", "}">>
sName == <<"n", "a", "m", "e">>
sActive == <<"a", "c", "t", "i", "v", "e">>
sItemId == <<"i", "t", "e", "m", "I", "d">>
sListUsers == <<"l", "i", "s", "t", "U", "s", "e", "r", "s">>
sApiHost == <<"h", "t", "t", "p", "s", ":", "/", "/", "a", "p", "i", ".", "e", "x", "a", "m", "p", "l", "e", ".", "c", "o", "m">>
sParameters == <<"p", "a", "r", "a", "m", "e", "t", "e", "r", "s">>
sVndJson == <<"a", "p", "p", "l", "i", "c", "a", "t", "i", "o", "n", "/", "v", "n", "d", ".", "a", "p", "i", "+", "j", "s", "o", "n">>
sTextPlain == <<"t", "e", "x", "t", "/", "p", "l", "a", "i", "n">>

PathPool == <<pAdminUsers, pAdminTools, pFranchises, pItems>>

\* an operation with no field at all
opPlain == EmptyDict
\* a declared operationId
opNamed == [operationId |-> sListUsers]
\* a 201 response with an `id` property, and a body schema with a string and a boolean
opCreate ==
    [responses |-> [s \in {"201"} |->
        [content |-> <<<<sApplicationJson,
            [schema |-> [type |-> "object",
                         properties |-> <<<<sId, [type |-> "string"]>>>>]]>>>>]],
     requestBody |-> [content |-> <<<<sApplicationJson,
        [schema |-> [properties |-> <<<<sName, [type |-> "string"]>>,
                                      <<sActive, [type |-> "boolean",
                                                  default |-> [t |-> "bool", v |-> TRUE]]>>>>]]>>>>]]
\* a JSON body schema without properties
opNoProps ==
    [requestBody |-> [content |-> <<<<sVndJson, [schema |-> [type |-> "object"]]>>>>]]

ItemPool ==
    << <<<<sGet, opPlain>>>>,
       <<<<sPost, opCreate>>>>,
       <<<<sParameters, EmptyDict>>, <<Upper(sGet), opNamed>>, <<sPut, opNoProps>>>> >>

ServersPool ==
    <<EmptyDict,
      [servers |-> <<>>],
      [servers |-> <<EmptyDict>>],
      [servers |-> <<[url |-> sApiHost]>>]>>

AuthKeys == {<<>>, <<"k">>}

\* the keys of a mapping are distinct; they are drawn in the pool's order
Increasing(f) == \A a, b \in DOMAIN f : a < b => f[a] < f[b]

\* the `paths` mappings: up to MaxPaths distinct paths, each with a path item
PathsOf(f, g) == [k \in DOMAIN f |-> <<PathPool[f[k]], ItemPool[g[k]]>>]

NoCall == [fn |-> "none"]

(***************************************************************************)
(* The generator object: OpenAPIToK6(spec, auth_key), then generate().     *)
(***************************************************************************)
Init ==
    /\ \E sv \in DOMAIN ServersPool, n \in 0..MaxPaths :
         \E f \in [1..n -> DOMAIN PathPool], g \in [1..n -> DOMAIN ItemPool] :
            /\ Increasing(f)
            /\ spec = [paths |-> PathsOf(f, g)] @@ ServersPool[sv]
    /\ auth_key \in AuthKeys
    /\ endpoints = <<>>
    /\ script = <<>>
    /\ first = <<>>
    /\ error = NoError
    /\ calls = 0
    /\ call = NoCall
    /\ result = <<>>

\* generate(): parse_spec(), then generate_k6_script(); line 32 raises before
\* anything is appended
Generate ==
    /\ calls < MaxCalls
    /\ calls' = calls + 1
    /\ IF ServersRaises(spec)
       THEN /\ error' = "IndexError"
            /\ UNCHANGED <<endpoints, script, first>>
       ELSE /\ error' = NoError
            /\ endpoints' = parse_spec(spec, endpoints)
            /\ script' = <<generate_k6_script(spec, endpoints')>>
            /\ first' = IF first = <<>> THEN script' ELSE first
    /\ UNCHANGED <<spec, auth_key, call, result>>

\* __init__ (lines 23-27) again, on the same spec and key: a fresh generator
NewGenerator ==
    /\ calls > 0
    /\ endpoints # <<>>
    /\ endpoints' = <<>>
    /\ error' = NoError
    /\ UNCHANGED <<spec, auth_key, script, first, calls, call, result>>

Next == Generate \/ NewGenerator

Spec == Init /\ [][Next]_vars

(***************************************************************************)
(* The helper methods, each called once on an input drawn from a bounded   *)
(* set.  The generator object is not involved: its fields stay as          *)
(* constructed on an empty spec.                                           *)
(***************************************************************************)
ObjectIdle ==
    /\ spec = EmptyDict
    /\ auth_key = <<>>
    /\ endpoints = <<>>
    /\ script = <<>>
    /\ first = <<>>
    /\ error = NoError
    /\ calls = 0

object == <<spec, auth_key, endpoints, script, first, error, calls>>

RECURSIVE Concat(_)
Concat(ss) == IF ss = <<>> THEN <<>> ELSE Head(ss) \o Concat(Tail(ss))

(***************************************************************************)
(* extract_path_parameters and replace_path_parameters on path templates   *)
(* assembled from up to MaxSegs pieces.                                    *)
(***************************************************************************)
SegPool ==
    << <<"/", "x", "/">>,
       <<"{", "i", "d", "}">>,
       <<"{", "i", "t", "e", "m", "I", "d", "}">>,
       <<"{", "u", "s", "e", "r", "-", "i", "d", "}">>,
       <<"{">>,
       <<"}">> >>

InitPath ==
    /\ ObjectIdle
    /\ \E n \in 0..MaxSegs : \E f \in [1..n -> DOMAIN SegPool] :
         \E fn \in {"extract_path_parameters", "replace_path_parameters"} :
            call = [fn |-> fn, path |-> Concat([k \in 1..n |-> SegPool[f[k]]])]
    /\ result = <<>>

CallExtractPathParameters ==
    /\ call.fn = "extract_path_parameters"
    /\ result = <<>>
    /\ result' = <<extract_path_parameters(call.path)>>
    /\ UNCHANGED <<object, call>>

CallReplacePathParameters ==
    /\ call.fn = "replace_path_parameters"
    /\ result = <<>>
    /\ result' = <<replace_path_parameters(call.path)>>
    /\ UNCHANGED <<object, call>>

NextPath == CallExtractPathParameters \/ CallReplacePathParameters

SpecPath == InitPath /\ [][NextPath]_vars

(***************************************************************************)
(* generate_request_body on schemas of up to MaxProps properties.          *)
(***************************************************************************)
NamePool == <<sName, sActive, sFranchiseId, sItemId>>

PropSchemaPool ==
    <<[type |-> "string"],
      EmptyDict,
      [type |-> "boolean", default |-> [t |-> "bool", v |-> TRUE]],
      [type |-> "boolean", default |-> [t |-> "bool", v |-> FALSE]],
      [type |-> "boolean"],
      [type |-> "integer"],
      [type |-> "number", default |-> [t |-> "int", v |-> 12]],
      [type |-> "string", default |-> [t |-> "str", v |-> <<"x">>]],
      [type |-> "array"],
      [type |-> "object"],
      [type |-> "null"]>>

InitBody ==
    /\ ObjectIdle
    /\ \E n \in 0..MaxProps :
         \E f \in [1..n -> DOMAIN NamePool], g \in [1..n -> DOMAIN PropSchemaPool] :
            /\ Increasing(f)
            /\ \E sch \in {1, 2} :
                 call = [fn |-> "generate_request_body",
                         schema |-> IF n = 0 /\ sch = 2 THEN [type |-> "object"]
                                    ELSE [properties |->
                                            [k \in 1..n |-> <<NamePool[f[k]], PropSchemaPool[g[k]]>>],
                                          required |-> IF sch = 2 THEN <<NamePool[f[1]]>> ELSE <<>>],
                         var_name |-> BodyVar(0)]
    /\ result = <<>>

CallGenerateRequestBody ==
    /\ call.fn = "generate_request_body"
    /\ result = <<>>
    /\ result' = <<generate_request_body(call.schema, call.var_name)>>
    /\ UNCHANGED <<object, call>>

NextBody == CallGenerateRequestBody

SpecBody == InitBody /\ [][NextBody]_vars

(***************************************************************************)
(* find_response_value_extractor on operations whose responses hold up to  *)
(* MaxEntries content entries in all, each under one status code.          *)
(***************************************************************************)
sUserID == <<"u", "s", "e", "r", "I", "D">>
sPid == <<"p", "i", "d">>
sItemDotId == <<"i", "t", "e", "m", ".", "i", "d">>
sUpperJson == <<"A", "p", "p", "l", "i", "c", "a", "t", "i", "o", "n", "/", "J", "S", "O", "N">>

\* <<content type, media type>> entries of a response's `content`
EntryPool ==
    << <<sApplicationJson,
         [schema |-> [type |-> "object",
                      properties |-> <<<<sItemId, EmptyDict>>, <<sId, EmptyDict>>>>]]>>,
       <<sUpperJson,
         [schema |-> [properties |-> <<<<sName, EmptyDict>>, <<sId, EmptyDict>>>>]]>>,
       <<sVndJson,
         [schema |-> [type |-> "object",
                      properties |-> <<<<sName, EmptyDict>>, <<sUserID, EmptyDict>>,
                                       <<sPid, EmptyDict>>>>]]>>,
       <<sApplicationJson,
         [schema |-> [type |-> "array", properties |-> <<<<sUserID, EmptyDict>>>>]]>>,
       <<sTextPlain,
         [schema |-> [type |-> "object",
                      properties |-> <<<<sItemId, EmptyDict>>, <<sId, EmptyDict>>>>]]>>,
       <<sApplicationJson, EmptyDict>> >>

StatusPool == <<"200", "201", "202", "default", "404">>

\* the responses mapping that holds the placed entries, each status code's
\* content in placement order
ContentAt(placed, status) ==
    LET at == SelectSeq(placed, LAMBDA e : e[1] = status)
    IN [k \in DOMAIN at |-> at[k][2]]

ResponsesOf(placed) ==
    [st \in {placed[k][1] : k \in DOMAIN placed} |-> [content |-> ContentAt(placed, st)]]

\* the content of a response never holds one content type twice
DistinctTypes(placed) ==
    \A a, b \in DOMAIN placed :
        (a # b /\ placed[a][1] = placed[b][1]) => placed[a][2][1] # placed[b][2][1]

PlacedSeqs ==
    UNION {[1..n -> (DOMAIN StatusPool) \X (DOMAIN EntryPool)] : n \in 0..MaxEntries}

Placed(f) == [k \in DOMAIN f |-> <<StatusPool[f[k][1]], EntryPool[f[k][2]]>>]

\* operations without `responses`, without `content`, or with the placed entries
OperationsOf(f) ==
    IF f = <<>>
    THEN {1, 2, 3}
    ELSE {4}

OperationOf(f, v) ==
    CASE v = 1 -> EmptyDict
      [] v = 2 -> [responses |-> EmptyDict]
      [] v = 3 -> [responses |-> [st \in {"200"} |-> EmptyDict]]
      [] v = 4 -> [responses |-> ResponsesOf(Placed(f))]

ParamPool == {sItemId, sId}

InitExtractor ==
    /\ ObjectIdle
    /\ \E f \in PlacedSeqs : \E v \in OperationsOf(f) : \E pn \in ParamPool :
         /\ DistinctTypes(Placed(f))
         /\ call = [fn |-> "find_response_value_extractor",
                    operation |-> OperationOf(f, v), param_name |-> pn]
    /\ result = <<>>

CallFindResponseValueExtractor ==
    /\ call.fn = "find_response_value_extractor"
    /\ result = <<>>
    /\ result' = <<find_response_value_extractor(call.operation, call.param_name)>>
    /\ UNCHANGED <<object, call>>

NextExtractor == CallFindResponseValueExtractor

SpecExtractor == InitExtractor /\ [][NextExtractor]_vars

(***************************************************************************)
(* generate_value_tracker, called as line 220 calls it: the operation      *)
(* carries the endpoint's method.                                          *)
(***************************************************************************)
TrackerPaths ==
    << pFranchises,
       <<"/", "f", "r", "a", "n", "c", "h", "i", "s", "e", "s", "/", "{", "f", "r", "a", "n", "c", "h", "i", "s", "e", "I", "d", "}">>,
       <<"/", "i", "t", "e", "m", "s", "/", "{", "i", "t", "e", "m", "I", "d", "}">>,
       <<"/", "x", "/", "{", "n", "a", "m", "e", "}">>,
       <<"/", "i", "t", "e", "m", "s", "/", "{", "i", "d", "}", "/", "{", "i", "d", "}">> >>

\* `content` of the response the operation declares under one status code
TrackerContents ==
    << <<>>,
       <<EntryPool[1]>>,
       <<EntryPool[2]>>,
       <<EntryPool[3]>>,
       <<<<sApplicationJson,
           [schema |-> [type |-> "object",
                        properties |-> <<<<sName, EmptyDict>>, <<sItemDotId, EmptyDict>>>>]]>>>> >>

InitTracker ==
    /\ ObjectIdle
    /\ \E p \in DOMAIN TrackerPaths, m \in StandardMethods,
          c \in DOMAIN TrackerContents, st \in {"200", "201", "404"} :
         call = [fn |-> "generate_value_tracker",
                 path |-> TrackerPaths[p],
                 operation |-> [method |-> Upper(m),
                                responses |-> [s \in {st} |-> [content |-> TrackerContents[c]]]],
                 res_var |-> ResVar(0)]
    /\ result = <<>>

CallGenerateValueTracker ==
    /\ call.fn = "generate_value_tracker"
    /\ result = <<>>
    /\ result' = <<generate_value_tracker(call.path, call.operation, call.res_var)>>
    /\ UNCHANGED <<object, call>>

NextTracker == CallGenerateValueTracker

SpecTracker == InitTracker /\ [][NextTracker]_vars

(***************************************************************************)
(* Properties of the generator object (specification Spec).                *)
(***************************************************************************)
SpecPaths == Get(spec, "paths", <<>>)
Blocks == IF script = <<>> THEN <<>> ELSE script[1].blocks

\* the operations of the spec that are declared under a standard method
Declared ==
    UNION {{<<i, j>> : j \in {m \in DOMAIN SpecPaths[i][2] :
                                 Lower(SpecPaths[i][2][m][1]) \in StandardMethods}} :
           i \in DOMAIN SpecPaths}
DeclPath(d) == SpecPaths[d[1]][1]
DeclMethod(d) == SpecPaths[d[1]][2][d[2]][1]
DeclOperation(d) == SpecPaths[d[1]][2][d[2]][2]

\* C1: no Endpoint and no script block (hence no Authorization header code)
\* exists for a path that contains `/admin` anywhere, and every operation
\* declared under a standard method on a path without `/admin` is kept, as an
\* Endpoint after extraction and as a block of every generated script.
C1_AdminExcluded ==
    /\ \A k \in DOMAIN endpoints : ~Contains(sAdmin, endpoints[k].path)
    /\ \A k \in DOMAIN Blocks :
          /\ ~Contains(sAdmin, Blocks[k].path)
          /\ "Authorization" \in Range(Blocks[k].headers) => ~Contains(sAdmin, Blocks[k].path)
    /\ \A d \in Declared :
          ~Contains(sAdmin, DeclPath(d)) =>
             /\ endpoints # <<>> =>
                   \E k \in DOMAIN endpoints :
                       /\ endpoints[k].path = DeclPath(d)
                       /\ endpoints[k].method = Upper(DeclMethod(d))
             /\ script # <<>> =>
                   \E k \in DOMAIN Blocks :
                       /\ Blocks[k].path = DeclPath(d)
                       /\ Blocks[k].method = Upper(DeclMethod(d))

\* a script was generated from a spec that declares a standard-method operation
\* on `/v1/admin-tools` beside an operation on a path that is kept
C1_Witness ==
    /\ script # <<>>
    /\ Blocks # <<>>
    /\ \E d \in Declared : DeclPath(d) = pAdminTools

\* C2: every generate() returns the text the first one returned for this spec
\* and key, and each (path, method) pair is held as exactly one Endpoint.
C2_Idempotent ==
    /\ script # <<>> => script = first
    /\ \A a, b \in DOMAIN endpoints :
          (endpoints[a].path = endpoints[b].path /\ endpoints[a].method = endpoints[b].method)
             => a = b

\* C6: in every generated script, a block whose HTTP call references body<i>
\* also holds the declaration of body<i>.
C6_BodyDeclared ==
    \A k \in DOMAIN Blocks :
        Blocks[k].request.body # <<>> =>
           /\ Blocks[k].body # <<>>
           /\ Blocks[k].body[1].var = Blocks[k].request.body[1]

\* the path with every `/` turned into `_` and every brace dropped
Slug(path) ==
    LET kept == SelectSeq(path, LAMBDA c : c \notin {"{", "}"})
    IN [k \in DOMAIN kept |-> IF kept[k] = "/" THEN "_" ELSE kept[k]]

\* the path with every `/`, `{` and `}` dropped
Stripped(path) == SelectSeq(path, LAMBDA c : c \notin {"/", "{", "}"})

\* the Endpoints extracted for the declared operation d
EndpointsOf(d) ==
    {k \in DOMAIN endpoints :
        /\ endpoints[k].path = DeclPath(d)
        /\ endpoints[k].method = Upper(DeclMethod(d))}

\* C9 as amended: a declared operationId is used unchanged; without one the id
\* is `<method>_<path>` with every `/` of the path replaced by `_` and every
\* `{` and `}` removed, the same on every extraction.
C9_OperationIdSlug ==
    \A d \in Declared : \A k \in EndpointsOf(d) :
        endpoints[k].operation_id =
            IF "operationId" \in DOMAIN DeclOperation(d)
            THEN DeclOperation(d).operationId
            ELSE DeclMethod(d) \o <<"_">> \o Slug(DeclPath(d))

\* an Endpoint with a derived id, on a path with a placeholder, extracted twice
C9_Witness ==
    \E d \in Declared :
        /\ DeclPath(d) = pItems
        /\ "operationId" \notin DOMAIN DeclOperation(d)
        /\ Cardinality(EndpointsOf(d)) >= 2

\* C9 as stated: without a declared operationId the id is `<method>_<path>`
\* with every `/`, `{` and `}` removed from the path.
C9_OperationIdStripped ==
    \A d \in Declared : \A k \in EndpointsOf(d) :
        "operationId" \notin DOMAIN DeclOperation(d) =>
            endpoints[k].operation_id = DeclMethod(d) \o <<"_">> \o Stripped(DeclPath(d))

\* C10: generate() never ends in an error, and the script uses servers[0].url
\* when it is present and `http://localhost` otherwise.
C10_NeverRaises ==
    /\ error = NoError
    /\ script # <<>> =>
          script[1].base_url =
              IF /\ "servers" \in DOMAIN spec
                 /\ spec.servers # <<>>
                 /\ "url" \in DOMAIN spec.servers[1]
              THEN spec.servers[1].url
              ELSE sLocalhost

(***************************************************************************)
(* Properties of find_response_value_extractor (specification              *)
(* SpecExtractor).                                                         *)
(***************************************************************************)
Returned == result[1]

IdLike(name) == Contains(sId, Lower(name))
IsJsonEntry(entry) == Contains(sJson, Lower(entry[1]))
EntryProps(entry) == Get(Get(entry[2], "schema", EmptyDict), "properties", <<>>)
EntryType(entry) == Get(Get(entry[2], "schema", EmptyDict), "type", "None")
Declares(entry, name) == \E k \in DOMAIN EntryProps(entry) : EntryProps(entry)[k][1] = name

\* the field the three rules select at one content entry, in priority order
Picks(entry, param, field) ==
    \/ Declares(entry, param) /\ field = param
    \/ ~Declares(entry, param) /\ Declares(entry, sId) /\ field = sId
    \/ /\ ~Declares(entry, param)
       /\ ~Declares(entry, sId)
       /\ EntryType(entry) = "object"
       /\ \E k \in DOMAIN EntryProps(entry) :
             /\ EntryProps(entry)[k][1] = field
             /\ IdLike(field)
             /\ \A m \in 1..(k - 1) : ~IdLike(EntryProps(entry)[m][1])

\* some rule matches at a JSON content entry
Matches(entry, param) ==
    /\ IsJsonEntry(entry)
    /\ \/ Declares(entry, param)
       \/ Declares(entry, sId)
       \/ EntryType(entry) = "object" /\ \E k \in DOMAIN EntryProps(entry) :
                                             IdLike(EntryProps(entry)[k][1])

ScanOrder == <<"200", "201", "202", "default">>
ContentOf(operation, k) ==
    Get(Get(Get(operation, "responses", EmptyDict), ScanOrder[k], EmptyDict), "content", <<>>)

\* C4: the extractor is the field picked, by rule priority, at the first
\* JSON content entry of the first status code in the order 200, 201, 202,
\* default at which any rule matches; it is None when no rule matches at any
\* JSON entry of those four status codes.
C4_ExtractorOrder ==
    (call.fn = "find_response_value_extractor" /\ result # <<>>) =>
        LET op == call.operation
            pn == call.param_name
        IN IF \E k \in DOMAIN ScanOrder : \E e \in DOMAIN ContentOf(op, k) :
                  Matches(ContentOf(op, k)[e], pn)
           THEN \E k \in DOMAIN ScanOrder : \E e \in DOMAIN ContentOf(op, k) :
                  /\ IsJsonEntry(ContentOf(op, k)[e])
                  /\ \E name \in {pn, sId} \cup {EntryProps(ContentOf(op, k)[e])[m][1] :
                                                   m \in DOMAIN EntryProps(ContentOf(op, k)[e])} :
                        /\ Picks(ContentOf(op, k)[e], pn, name)
                        /\ Returned = <<sJsonDot \o name>>
                  /\ \A k2 \in 1..(k - 1) : \A e2 \in DOMAIN ContentOf(op, k2) :
                        ~Matches(ContentOf(op, k2)[e2], pn)
                  /\ \A e2 \in 1..(e - 1) : ~Matches(ContentOf(op, k)[e2], pn)
           ELSE Returned = <<>>

\* `json.id` was returned for the parameter itemId from a 200 response that
\* declares `id` but not `itemId`, although the 201 response declares `itemId`
C4_Witness ==
    /\ call.fn = "find_response_value_extractor"
    /\ result # <<>>
    /\ call.param_name = sItemId
    /\ Returned = <<sJsonDot \o sId>>
    /\ \E e \in DOMAIN ContentOf(call.operation, 1) :
          /\ IsJsonEntry(ContentOf(call.operation, 1)[e])
          /\ Declares(ContentOf(call.operation, 1)[e], sId)
    /\ \E e \in DOMAIN ContentOf(call.operation, 2) :
          /\ IsJsonEntry(ContentOf(call.operation, 2)[e])
          /\ Declares(ContentOf(call.operation, 2)[e], sItemId)

(***************************************************************************)
(* Properties of generate_value_tracker (specification SpecTracker).       *)
(***************************************************************************)
\* the field name an extractor `json.<field>` names
FieldOf(extractor) == SubSeq(extractor, Len(sJsonDot) + 1, Len(extractor))

\* the path parameters that get a capture block, in order
Captured(path, operation) ==
    SelectSeq(extract_path_parameters(path),
              LAMBDA q : /\ IdLike(q) \/ Contains(sFranchise, Lower(q))
                         /\ find_response_value_extractor(operation, q) # <<>>)

\* C3: tracking code is emitted only for POST and PUT; there, one capture block
\* per path parameter whose name contains `id` or `franchise` and for which the
\* heuristic yields a field, reading exactly that field and storing it under the
\* parameter's name; and the fixed franchiseId block exactly when the method is
\* POST and the path contains `franchise`.
C3_TrackerBlocks ==
    (call.fn = "generate_value_tracker" /\ result # <<>>) =>
        LET op == call.operation
            captured == Captured(call.path, op)
            params == SelectSeq(Returned, LAMBDA b : b.kind = "param")
            fixed == SelectSeq(Returned, LAMBDA b : b.kind = "franchise")
        IN /\ op.method \notin {Upper(sPost), Upper(sPut)} => Returned = <<>>
           /\ op.method \in {Upper(sPost), Upper(sPut)} =>
                 /\ Len(params) = Len(captured)
                 /\ \A k \in DOMAIN params :
                       /\ params[k].key = captured[k]
                       /\ params[k].fields =
                             <<FieldOf(find_response_value_extractor(op, captured[k])[1])>>
           /\ fixed # <<>> <=>
                 (op.method = Upper(sPost) /\ Contains(sFranchise, Lower(call.path)))
           /\ \A k \in DOMAIN fixed :
                 fixed[k].key = sFranchiseId /\ fixed[k].fields = <<sId, sFranchiseId>>

(***************************************************************************)
(* Properties of replace_path_parameters (specification SpecPath).         *)
(***************************************************************************)
\* a `{name}` placeholder token starts at i: a brace pair around a non-empty
\* name without `/` or braces, that is not the `${...}` of a lookup expression
PlaceholderAt(s, i) ==
    /\ s[i] = "{"
    /\ i = 1 \/ s[i - 1] # "$"
    /\ \E j \in (i + 2)..Len(s) :
          /\ s[j] = "}"
          /\ \A m \in (i + 1)..(j - 1) : s[m] \notin {"{", "}", "/"}

\* C5: the path replace_path_parameters returns holds no unresolved `{name}`
\* placeholder token.
C5_NoUnresolvedPlaceholder ==
    (call.fn = "replace_path_parameters" /\ result # <<>>) =>
        \A i \in DOMAIN Returned : ~PlaceholderAt(Returned, i)

(***************************************************************************)
(* Properties of generate_request_body (specification SpecBody).           *)
(***************************************************************************)
BodyProps == Get(call.schema, "properties", <<>>)
Parts == IF Returned = <<>> THEN <<>> ELSE Returned[1].parts
Quoted(text) == <<"'">> \o text \o <<"'">>

\* C7: a boolean property is emitted as the script literal `true` or `false`,
\* its declared default or `false`; a string property without default whose
\* name holds neither `id` nor `franchise` is emitted as '<name>_value'.
C7_BooleanLiterals ==
    (call.fn = "generate_request_body" /\ result # <<>>) =>
        \A k \in DOMAIN BodyProps :
            LET name == BodyProps[k][1]
                sch == BodyProps[k][2]
            IN /\ Get(sch, "type", "string") = "boolean" =>
                     \E m \in DOMAIN Parts :
                         /\ Parts[m].name = name
                         /\ Parts[m].value =
                               IF "default" \in DOMAIN sch /\ sch.default.v
                               THEN <<"t", "r", "u", "e">>
                               ELSE <<"f", "a", "l", "s", "e">>
               /\ (/\ Get(sch, "type", "string") = "string"
                   /\ "default" \notin DOMAIN sch
                   /\ ~IdLike(name)
                   /\ ~Contains(sFranchise, Lower(name))) =>
                     \E m \in DOMAIN Parts :
                         Parts[m].name = name /\ Parts[m].value = Quoted(name \o sValue)

KnownTypes == {"string", "integer", "number", "boolean", "array", "object"}

\* C8: exactly one entry per declared property, in declaration order; a
\* property without default whose type is absent or unrecognised is emitted by
\* the string branch.
C8_OnePartPerProperty ==
    (call.fn = "generate_request_body" /\ result # <<>>) =>
        /\ Len(Parts) = Len(BodyProps)
        /\ \A k \in DOMAIN BodyProps :
              LET name == BodyProps[k][1]
                  sch == BodyProps[k][2]
              IN /\ Parts[k].name = name
                 /\ (/\ "default" \notin DOMAIN sch
                     /\ Get(sch, "type", "string") \notin KnownTypes \ {"string"}) =>
                       Parts[k].value =
                          IF IdLike(name) \/ Contains(sFranchise, Lower(name))
                          THEN sTrackedValuesDot \o name \o sOr
                               \o sTrackedValuesDot \o sFranchiseId \o sOr
                               \o Quoted(name \o sValue)
                          ELSE Quoted(name \o sValue)

====
